---- MODULE Spec2Model ----
(***************************************************************************)
(* Editor automation scripts of the Space Dogfight project: the complete   *)
(* setup (internal_complete_setup.py) and the three scripts it runs        *)
(* (internal_spaceship_creator.py, internal_input_setup.py,                *)
(* internal_weapon_system.py), against a model of the host editor's asset  *)
(* library, blueprints, level and input settings.                          *)
(*                                                                         *)
(* Every host call is a "site" <<operation, argument>>.  A function call   *)
(* is run against an oracle o = [r |-> site, n |-> site]: the host raises  *)
(* at site o.r and returns None/False at site o.n (NoSite: nowhere).  The  *)
(* host fails at no more than MaxFaults sites, from the first call it      *)
(* chooses to fail on; between two runs from the console it may be         *)
(* repaired, and then fails no more.                                       *)
(***************************************************************************)
EXTENDS Integers, Sequences, FiniteSets, TLC

VARIABLES
  host,        \* the editor: directories, assets, blueprints, level actors
  inputs,      \* the input settings: action and axis mappings
  pc,          \* position in the running main() ("idle" between runs)
  script,      \* the script whose main() is running ("" when none)
  caller,      \* what runs it: "exec_module", "module.main", "direct";
               \* "setup" in the loop of the complete setup; "" between runs
  idx,         \* complete setup: index of the current entry of the scripts list
  locals,      \* local variables of the running main()
  last,        \* the last function call: name, return value, host calls made
  results,     \* complete setup: return values of import_and_run_module
  log,         \* messages logged in the current run, in order
  hist,        \* history kept for the properties
  oracle,      \* the host's failures
  runs         \* number of runs started from the console

vars == <<host, inputs, pc, script, caller, idx, locals, last, results, log,
          hist, oracle, runs>>

----------------------------------------------------------------------------
\* Paths and names

BLUEPRINT_PATH == "/Game/SpaceDogfight/Blueprints"

WEAPONS_PATH == "/Game/SpaceDogfight/Weapons"

SPACESHIP_FULL_PATH == "/Game/SpaceDogfight/Blueprints/BP_Spaceship"

LASER_FULL_PATH == "/Game/SpaceDogfight/Weapons/BP_LaserProjectile"

MISSILE_FULL_PATH == "/Game/SpaceDogfight/Weapons/BP_MissileProjectile"

AssetPaths == {SPACESHIP_FULL_PATH, LASER_FULL_PATH, MISSILE_FULL_PATH}

Directories == {BLUEPRINT_PATH, WEAPONS_PATH}

CONE_MESH == "/Engine/BasicShapes/Cone"

CYLINDER_MESH == "/Engine/BasicShapes/Cylinder"

\* components attached by add_components_to_blueprint after the root
\* (mesh: the static mesh loaded for it, "" when none)
spaceship_components ==
  << [name |-> "ShipMesh",          mesh |-> CONE_MESH],
     [name |-> "CollisionSphere",   mesh |-> ""],
     [name |-> "CameraSpringArm",   mesh |-> ""],
     [name |-> "FollowCamera",      mesh |-> ""],
     [name |-> "MovementComponent", mesh |-> ""] >>

laser_components ==
  << [name |-> "ProjectileMovement", mesh |-> ""],
     [name |-> "LaserVisual",        mesh |-> CYLINDER_MESH],
     [name |-> "CollisionCapsule",   mesh |-> ""] >>

missile_components ==
  << [name |-> "ProjectileMovement", mesh |-> ""],
     [name |-> "MissileVisual",      mesh |-> CONE_MESH],
     [name |-> "CollisionSphere",    mesh |-> ""] >>

weapon_mounts ==
  << [name |-> "LeftWeaponMount",   mesh |-> ""],
     [name |-> "RightWeaponMount",  mesh |-> ""],
     [name |-> "CenterWeaponMount", mesh |-> ""] >>

\* the variables table of add_blueprint_variables
variables ==
  << "Health", "MaxSpeed", "ThrustForce", "RollRate", "PitchRate", "YawRate",
     "LinearDamping", "AngularDamping", "BoostMultiplier", "BrakeForce",
     "MinZoomDistance", "MaxZoomDistance", "ZoomSpeed", "CurrentZoomTarget",
     "BoostCameraShakeIntensity", "DamageCameraShakeIntensity",
     "CameraShakeDuration" >>

\* the guarded variable blocks of the weapon functions, in source order
laser_variables == << "Damage", "Lifetime" >>

missile_variables == << "Damage", "Lifetime", "ExplosionRadius", "HomingTarget" >>

weapon_variables ==
  << "LaserCooldown", "MissileCooldown", "MaxMissiles", "CurrentMissiles",
     "LaserProjectileClass", "MissileProjectileClass" >>

Range(s) == {s[i] : i \in DOMAIN s}

Names(cs) == {cs[i].name : i \in DOMAIN cs}

ComponentNames ==
  {"DefaultSceneRoot"} \cup Names(spaceship_components) \cup Names(laser_components)
    \cup Names(missile_components) \cup Names(weapon_mounts)

VariableNames ==
  Range(variables) \cup Range(laser_variables) \cup Range(missile_variables)
    \cup Range(weapon_variables)

----------------------------------------------------------------------------
\* Host calls and their outcomes

NoSite == <<"", "">>

Outcome(o, s) == IF o.r = s THEN "raise" ELSE IF o.n = s THEN "none" ELSE "ok"

\* a function call in progress: the host, the host calls made so far, whether
\* an exception is in flight, and the outcome of the latest host call
Begin(h) == [h |-> h, tr |-> << >>, exc |-> FALSE, res |-> "ok"]

Invoke(st, s, o) ==
  IF st.exc THEN st
  ELSE [st EXCEPT !.tr = Append(@, <<s, Outcome(o, s)>>),
                  !.exc = (Outcome(o, s) = "raise"),
                  !.res = Outcome(o, s)]

Exists(h, path) == h.assets[path] > 0

\* a load of an asset: the host returns None when no asset is at the path
InvokeLoad(st, s, path, o) ==
  IF st.exc \/ Exists(st.h, path) \/ Outcome(o, s) = "raise" THEN Invoke(st, s, o)
  ELSE [st EXCEPT !.tr = Append(@, <<s, "none">>), !.res = "none"]

Result(ret, st) == [ret |-> ret, h |-> st.h, tr |-> st.tr]

\* the return value of a function whose body is one try/except returning False
Guarded(st) == Result(IF st.exc THEN "False" ELSE "True", st)

----------------------------------------------------------------------------
\* Functions shared by internal_spaceship_creator.py and internal_weapon_system.py

ensure_directory_exists(st, path, o) ==
  LET s1 == Invoke(st, <<"does_directory_exist", path>>, o) IN
  IF s1.exc \/ path \in s1.h.dirs THEN s1
  ELSE LET s2 == Invoke(s1, <<"make_directory", path>>, o) IN
       IF s2.res = "ok" THEN [s2 EXCEPT !.h.dirs = @ \cup {path}] ELSE s2

\* a create function without the existence check
create_blueprint_unchecked(h, path, dir, o) ==
  LET s1 == ensure_directory_exists(Begin(h), dir, o)
      s3 == Invoke(s1, <<"BlueprintFactory", path>>, o)
      s4 == Invoke(s3, <<"create_asset", path>>, o)
      s5 == IF s4.res = "ok" THEN [s4 EXCEPT !.h.assets[path] = @ + 1] ELSE s4
  IN  Result(IF s5.exc THEN "raise" ELSE IF s5.res = "none" THEN "None" ELSE path, s5)

\* the body of the three create_*_blueprint functions; no try/except: a host
\* exception leaves the function ("raise")
create_blueprint(h, path, dir, o) ==
  LET s1 == ensure_directory_exists(Begin(h), dir, o)
      s2 == Invoke(s1, <<"does_asset_exist", path>>, o)
  IN  IF s2.exc THEN Result("raise", s2)
      ELSE IF Exists(s2.h, path)
      THEN LET s3 == Invoke(s2, <<"load_asset", path>>, o) IN
           Result(IF s3.exc THEN "raise" ELSE IF s3.res = "none" THEN "None" ELSE path, s3)
      ELSE LET s3 == Invoke(s2, <<"BlueprintFactory", path>>, o)
               s4 == Invoke(s3, <<"create_asset", path>>, o)
               s5 == IF s4.res = "ok" THEN [s4 EXCEPT !.h.assets[path] = @ + 1] ELSE s4
           IN  Result(IF s5.exc THEN "raise" ELSE IF s5.res = "none" THEN "None" ELSE path, s5)

\* "Get root component (create if needed)"
root_component(st, bp, o) ==
  LET s1 == Invoke(st, <<"get_components_from_blueprint", bp>>, o) IN
  IF s1.exc \/ s1.h.comps[bp]["DefaultSceneRoot"] > 0 THEN s1
  ELSE LET s2 == Invoke(s1, <<"add_new_component_to_blueprint", "DefaultSceneRoot">>, o) IN
       IF s2.res = "ok" THEN [s2 EXCEPT !.h.comps[bp]["DefaultSceneRoot"] = @ + 1] ELSE s2

\* one add_new_component_to_blueprint call and the configuration that follows it
add_component(st, bp, c, o) ==
  LET s1 == Invoke(st, <<"add_new_component_to_blueprint", c.name>>, o) IN
  IF s1.res # "ok" THEN s1
  ELSE LET s2 == [s1 EXCEPT !.h.comps[bp][c.name] = @ + 1]
           s3 == IF c.mesh = "" THEN s2 ELSE Invoke(s2, <<"load_asset", c.mesh>>, o)
       IN  IF s3.res # "ok" THEN s3
           ELSE Invoke(s3, <<"set_editor_property", c.name>>, o)

RECURSIVE add_components(_, _, _, _, _)
add_components(st, bp, cs, i, o) ==
  IF st.exc THEN st
  ELSE IF i > Len(cs) THEN st
  ELSE add_components(add_component(st, bp, cs[i], o), bp, cs, i + 1, o)

\* "Compile and save the blueprint"
compile_and_save(st, bp, o) ==
  Invoke(Invoke(st, <<"compile_blueprint", bp>>, o), <<"save_asset", bp>>, o)

----------------------------------------------------------------------------
\* internal_spaceship_creator.py

create_spaceship_blueprint(h, o) ==
  create_blueprint(h, SPACESHIP_FULL_PATH, BLUEPRINT_PATH, o)

add_components_to_blueprint(h, blueprint, o) ==
  IF blueprint = "None" THEN Result("False", Begin(h))
  ELSE LET s0 == InvokeLoad(Begin(h), <<"load_blueprint_class", SPACESHIP_FULL_PATH>>,
                            SPACESHIP_FULL_PATH, o)
       IN  IF s0.exc THEN Result("raise", s0)
           ELSE IF s0.res = "none" THEN Result("False", s0)
           ELSE LET s1 == Invoke(s0, <<"get_editor_subsystem", "BlueprintEditorSubsystem">>, o)
                    s2 == Invoke(s1, <<"open_blueprint", blueprint>>, o)
                    s3 == root_component(s2, blueprint, o)
                    s4 == add_components(s3, blueprint, spaceship_components, 1, o)
                IN  Guarded(compile_and_save(s4, SPACESHIP_FULL_PATH, o))

\* one iteration of the variables loop, in its own try/except
add_variable(st, bp, name, o) ==
  LET s1 == Invoke(st, <<"does_member_variable_exist", name>>, o)
      s2 == IF s1.exc \/ s1.h.vars[bp][name] > 0 THEN s1
            ELSE LET s3 == Invoke(s1, <<"add_member_variable", name>>, o) IN
                 IF s3.res = "ok" THEN [s3 EXCEPT !.h.vars[bp][name] = @ + 1] ELSE s3
  IN  IF st.exc THEN st ELSE [s2 EXCEPT !.exc = FALSE]

RECURSIVE add_variables(_, _, _, _, _)
add_variables(st, bp, vs, i, o) ==
  IF st.exc THEN st
  ELSE IF i > Len(vs) THEN st
  ELSE add_variables(add_variable(st, bp, vs[i], o), bp, vs, i + 1, o)

add_blueprint_variables(h, blueprint, o) ==
  IF blueprint = "None" THEN Result("False", Begin(h))
  ELSE LET s1 == Invoke(Begin(h), <<"get_editor_subsystem", "BlueprintEditorSubsystem">>, o)
           s2 == Invoke(s1, <<"EdGraphPinType", "variables">>, o)
           s3 == add_variables(s2, blueprint, variables, 1, o)
       IN  Guarded(compile_and_save(s3, SPACESHIP_FULL_PATH, o))

spawn_test_instance(h, o) ==
  LET s1 == InvokeLoad(Begin(h), <<"load_blueprint_class", SPACESHIP_FULL_PATH>>,
                       SPACESHIP_FULL_PATH, o)
      s2 == Invoke(s1, <<"get_all_level_actors", "">>, o)
      s3 == IF s2.exc \/ s2.h.actors.labelled = 0 THEN s2
            ELSE LET d == Invoke(s2, <<"destroy_actor", "TestSpaceship">>, o) IN
                 IF d.res = "ok" THEN [d EXCEPT !.h.actors.labelled = @ - 1] ELSE d
      s4 == Invoke(s3, <<"spawn_actor_from_class", SPACESHIP_FULL_PATH>>, o)
      s5 == IF s4.res = "ok" THEN [s4 EXCEPT !.h.actors.unlabelled = @ + 1] ELSE s4
      s6 == Invoke(s5, <<"set_actor_label", "TestSpaceship">>, o)
      s7 == IF s6.res = "ok"
            THEN [s6 EXCEPT !.h.actors = [labelled |-> @.labelled + 1,
                                          unlabelled |-> @.unlabelled - 1]]
            ELSE s6
  IN  IF s1.exc THEN Result("False", s1)
      ELSE IF s1.res = "none" THEN Result("False", s1)
      ELSE IF s3.exc THEN Result("False", s3)
      ELSE IF s4.exc \/ s4.res = "none" THEN Result("False", s4)
      ELSE Guarded(s7)

----------------------------------------------------------------------------
\* internal_weapon_system.py

create_laser_projectile_blueprint(h, o) ==
  create_blueprint(h, LASER_FULL_PATH, WEAPONS_PATH, o)

create_missile_projectile_blueprint(h, o) ==
  create_blueprint(h, MISSILE_FULL_PATH, WEAPONS_PATH, o)

\* the "Add variables" block: one try/except around all the additions (the
\* site of an addition covers the evaluation of its arguments); an exception
\* ends the block and is swallowed
RECURSIVE add_member_variables(_, _, _, _, _)
add_member_variables(st, bp, vs, i, o) ==
  IF st.exc THEN st
  ELSE IF i > Len(vs) THEN st
  ELSE LET s1 == Invoke(st, <<"add_member_variable", vs[i]>>, o)
           s2 == IF s1.res = "ok" THEN [s1 EXCEPT !.h.vars[bp][vs[i]] = @ + 1] ELSE s1
       IN  add_member_variables(s2, bp, vs, i + 1, o)

variable_block(st, bp, vs, o) ==
  IF st.exc THEN st
  ELSE [add_member_variables(st, bp, vs, 1, o) EXCEPT !.exc = FALSE]

\* the body shared by setup_laser_components and setup_missile_components
setup_components(h, blueprint, path, cs, vs, o) ==
  IF blueprint = "None" THEN Result("False", Begin(h))
  ELSE LET s1 == Invoke(Begin(h), <<"get_editor_subsystem", "BlueprintEditorSubsystem">>, o)
           s2 == Invoke(s1, <<"open_blueprint", blueprint>>, o)
           s3 == root_component(s2, blueprint, o)
           s4 == add_components(s3, blueprint, cs, 1, o)
           s5 == variable_block(s4, blueprint, vs, o)
       IN  Guarded(compile_and_save(s5, path, o))

setup_laser_components(h, blueprint, o) ==
  setup_components(h, blueprint, LASER_FULL_PATH, laser_components, laser_variables, o)

setup_missile_components(h, blueprint, o) ==
  setup_components(h, blueprint, MISSILE_FULL_PATH, missile_components,
                   missile_variables, o)

add_weapon_components_to_spaceship(h, o) ==
  LET s0 == InvokeLoad(Begin(h), <<"load_asset", SPACESHIP_FULL_PATH>>,
                       SPACESHIP_FULL_PATH, o)
      s1 == Invoke(s0, <<"get_editor_subsystem", "BlueprintEditorSubsystem">>, o)
      s2 == Invoke(s1, <<"open_blueprint", SPACESHIP_FULL_PATH>>, o)
      s3 == Invoke(s2, <<"get_components_from_blueprint", SPACESHIP_FULL_PATH>>, o)
      s4 == add_components(s3, SPACESHIP_FULL_PATH, weapon_mounts, 1, o)
      s5 == variable_block(s4, SPACESHIP_FULL_PATH, weapon_variables, o)
  IN  IF s0.exc \/ s0.res = "none" THEN Result("False", s0)
      ELSE IF s3.exc \/ s3.h.comps[SPACESHIP_FULL_PATH]["ShipMesh"] = 0
      THEN Result("False", s3)
      ELSE Guarded(compile_and_save(s5, SPACESHIP_FULL_PATH, o))

----------------------------------------------------------------------------
\* internal_input_setup.py
\* A mapping is <<name, key>> (action) or <<name, key, scale>> (axis).

action_mappings ==
  << <<"Boost", "E">>, <<"Brake", "R">>, <<"PrimaryFire", "LEFT_MOUSE_BUTTON">>,
     <<"SecondaryFire", "RIGHT_MOUSE_BUTTON">> >>

axis_mappings ==
  << <<"MoveForward", "W", 1>>, <<"MoveForward", "S", -1>>,
     <<"MoveRight", "D", 1>>, <<"MoveRight", "A", -1>>,
     <<"MoveUp", "Q", 1>>, <<"MoveUp", "Z", -1>>,
     <<"Turn", "MOUSE_X", 1>>, <<"LookUp", "MOUSE_Y", -1>>,
     <<"CameraZoom", "MOUSE_WHEEL_AXIS", 1>> >>

\* a host whose removal leaves the settings as they are
remove_mapping_ignored(st, field, m, o) ==
  Invoke(st, <<"remove_" \o field, m[1]>>, o)

\* host: remove_action_mapping / remove_axis_mapping take out every entry equal
\* to the given mapping (none when it is absent)
remove_mapping(st, field, m, o) ==
  LET s1 == Invoke(st, <<"remove_" \o field, m[1]>>, o) IN
  IF s1.res = "ok"
  THEN [s1 EXCEPT !.h[field] = SelectSeq(@, LAMBDA x : x # m)]
  ELSE s1

\* a clearing that removes every existing mapping, whatever its name
RECURSIVE clear_entry_all(_, _, _, _, _, _)
clear_entry_all(st, entry, existing, field, j, o) ==
  IF st.exc THEN st
  ELSE IF j > Len(existing) THEN st
  ELSE clear_entry_all(remove_mapping(st, field, existing[j], o),
                       entry, existing, field, j + 1, o)

\* a clearing that removes only the mappings equal to a table entry
RECURSIVE clear_entry_equal(_, _, _, _, _, _)
clear_entry_equal(st, entry, existing, field, j, o) ==
  IF st.exc THEN st
  ELSE IF j > Len(existing) THEN st
  ELSE clear_entry_equal(IF existing[j] = entry
                         THEN remove_mapping(st, field, existing[j], o)
                         ELSE st,
                         entry, existing, field, j + 1, o)

\* "Clear existing bindings": for each table entry (clear_mappings), for each
\* mapping of the list read before the loops (clear_entry), remove it when
\* the names are equal
RECURSIVE clear_entry(_, _, _, _, _, _)
clear_entry(st, entry, existing, field, j, o) ==
  IF st.exc THEN st
  ELSE IF j > Len(existing) THEN st
  ELSE clear_entry(IF existing[j][1] = entry[1]
                   THEN remove_mapping(st, field, existing[j], o)
                   ELSE st,
                   entry, existing, field, j + 1, o)

RECURSIVE clear_mappings(_, _, _, _, _, _)
clear_mappings(st, table, existing, field, i, o) ==
  IF st.exc THEN st
  ELSE IF i > Len(table) THEN st
  ELSE clear_mappings(clear_entry(st, table[i], existing, field, 1, o),
                      table, existing, field, i + 1, o)

\* host: add_action_mapping / add_axis_mapping append the mapping
RECURSIVE add_mappings(_, _, _, _, _)
add_mappings(st, table, field, i, o) ==
  IF st.exc THEN st
  ELSE IF i > Len(table) THEN st
  ELSE LET s1 == Invoke(st, <<"add_" \o field, table[i][2]>>, o)
           s2 == IF s1.res = "ok" THEN [s1 EXCEPT !.h[field] = Append(@, table[i])] ELSE s1
       IN  add_mappings(s2, table, field, i + 1, o)

\* a setup that saves the configuration before it adds the mappings
setup_input_mappings_saving_first(inp, o) ==
  LET s0 == Invoke(Begin(inp), <<"get_default_object", "InputSettings">>, o)
      s1 == Invoke(s0, <<"Key", "tables">>, o)
      s2 == Invoke(s1, <<"get_action_mappings", "">>, o)
      s3 == clear_mappings(s2, action_mappings, s2.h.action_mapping, "action_mapping", 1, o)
      s4 == Invoke(s3, <<"get_axis_mappings", "">>, o)
      s5 == clear_mappings(s4, axis_mappings, s4.h.axis_mapping, "axis_mapping", 1, o)
      s6 == Invoke(s5, <<"get_editor_subsystem", "EditorPreferencesSubsystem">>, o)
      s7 == Invoke(s6, <<"save_config_file", "InputSettings">>, o)
      s8 == add_mappings(s7, action_mappings, "action_mapping", 1, o)
      s9 == add_mappings(s8, axis_mappings, "axis_mapping", 1, o)
  IN  IF s0.exc \/ s0.res = "none" THEN Result("False", s0)
      ELSE Guarded(s9)

setup_input_mappings(inp, o) ==
  LET s0 == Invoke(Begin(inp), <<"get_default_object", "InputSettings">>, o)
      s1 == Invoke(s0, <<"Key", "tables">>, o)
      s2 == Invoke(s1, <<"get_action_mappings", "">>, o)
      s3 == clear_mappings(s2, action_mappings, s2.h.action_mapping, "action_mapping", 1, o)
      s4 == Invoke(s3, <<"get_axis_mappings", "">>, o)
      s5 == clear_mappings(s4, axis_mappings, s4.h.axis_mapping, "axis_mapping", 1, o)
      s6 == add_mappings(s5, action_mappings, "action_mapping", 1, o)
      s7 == add_mappings(s6, axis_mappings, "axis_mapping", 1, o)
      s8 == Invoke(s7, <<"get_editor_subsystem", "EditorPreferencesSubsystem">>, o)
      s9 == Invoke(s8, <<"save_config_file", "InputSettings">>, o)
  IN  IF s0.exc \/ s0.res = "none" THEN Result("False", s0)
      ELSE Guarded(s9)

----------------------------------------------------------------------------
\* Bounds: the runs started from the console, the mappings the input settings
\* hold at first, and the host calls that fail (by raising, or by returning
\* None or False)

MaxRuns == 2

MaxPrior == 2

MaxFaults == 1

----------------------------------------------------------------------------
\* The host's part in a function call: it keeps failing where it failed
\* before in this run, and may start to fail at a host call the function makes

Sites(tr) == {tr[i][1] : i \in DOMAIN tr}

Failures(tr) == {tr[i][1] : i \in {j \in DOMAIN tr : tr[j][2] # "ok"}}

\* host calls that report failure by their return value (None or False)
NoneOps ==
  {"make_directory", "load_asset", "create_asset", "load_blueprint_class",
   "add_new_component_to_blueprint", "add_member_variable", "destroy_actor",
   "spawn_actor_from_class", "save_asset", "get_default_object"}

NoFault == [r |-> NoSite, n |-> NoSite]

\* a repaired host: its failures are spent on sites no function calls
Repaired == [r |-> <<"repaired", "">>, n |-> <<"repaired", "">>]

\* the host calls of the blueprint scripts and of the input script
BlueprintSites ==
  ({"does_directory_exist", "make_directory"} \X Directories)
    \cup ({"does_asset_exist", "load_asset", "BlueprintFactory", "create_asset",
           "load_blueprint_class", "open_blueprint", "get_components_from_blueprint",
           "compile_blueprint", "save_asset", "spawn_actor_from_class"} \X AssetPaths)
    \cup ({"load_asset"} \X {CONE_MESH, CYLINDER_MESH})
    \cup ({"add_new_component_to_blueprint", "set_editor_property"} \X ComponentNames)
    \cup ({"does_member_variable_exist", "add_member_variable"} \X VariableNames)
    \cup {<<"get_editor_subsystem", "BlueprintEditorSubsystem">>,
          <<"EdGraphPinType", "variables">>, <<"get_all_level_actors", "">>,
          <<"destroy_actor", "TestSpaceship">>, <<"set_actor_label", "TestSpaceship">>}

InputSites ==
  ({"remove_action_mapping"} \X {action_mappings[i][1] : i \in DOMAIN action_mappings})
    \cup ({"add_action_mapping"} \X {action_mappings[i][2] : i \in DOMAIN action_mappings})
    \cup ({"remove_axis_mapping"} \X {axis_mappings[i][1] : i \in DOMAIN axis_mappings})
    \cup ({"add_axis_mapping"} \X {axis_mappings[i][2] : i \in DOMAIN axis_mappings})
    \cup {<<"get_default_object", "InputSettings">>, <<"Key", "tables">>,
          <<"get_action_mappings", "">>, <<"get_axis_mappings", "">>,
          <<"get_editor_subsystem", "EditorPreferencesSubsystem">>,
          <<"save_config_file", "InputSettings">>}

\* what the host may do in a function call: fail where it failed before, or,
\* if it has not yet, at one of the host calls in S
Oracles(S) ==
  LET rs == IF oracle.r # NoSite THEN {oracle.r} ELSE S \cup {NoSite}
      ns == IF oracle.n # NoSite THEN {oracle.n}
            ELSE {s \in S : s[1] \in NoneOps} \cup {NoSite}
  IN  {f \in [r : rs, n : ns] : Cardinality({f.r, f.n} \ {NoSite}) <= MaxFaults}

\* a failure the host starts with is one of a call the function has made
Starts(o, tr) ==
  /\ o.r # oracle.r => <<o.r, "raise">> \in Range(tr)
  /\ o.n # oracle.n => <<o.n, "none">> \in Range(tr)

\* operations the history follows: asset creation, component attachment,
\* variable addition, spawn, save
FollowedOps ==
  {"create_asset", "add_new_component_to_blueprint", "add_member_variable",
   "spawn_actor_from_class", "save_asset", "save_config_file"}

Note(hs, fn, tr) ==
  [hs EXCEPT !.faults = @ \/ Failures(tr) # {},
             !.clean = @ /\ Failures(tr) = {},
             !.failed = @ \cup {<<fn, s>> : s \in {x \in Failures(tr) : x[1] \in FollowedOps}},
             !.retried = @ \/ \E s \in Sites(tr) : <<fn, s>> \in hs.failed]

----------------------------------------------------------------------------
\* The scripts' main() functions, one step per function called

\* the list with its first two scripts exchanged
scripts_exchanged ==
  << "internal_input_setup", "internal_spaceship_creator", "internal_weapon_system" >>

scripts ==
  << "internal_spaceship_creator", "internal_input_setup", "internal_weapon_system" >>

\* the first function main() calls
Entry(name) ==
  CASE name = "internal_spaceship_creator" -> "create_spaceship_blueprint"
    [] name = "internal_input_setup" -> "setup_input_mappings"
    [] name = "internal_weapon_system" -> "create_laser_projectile_blueprint"

NoLocals == [blueprint |-> "None", laser_bp |-> "None", missile_bp |-> "None"]

\* a function of the blueprint scripts was called and gave r
Called(fn, o, r, nextpc, loc, msgs) ==
  /\ Starts(o, r.tr)
  /\ host' = r.h
  /\ last' = [fn |-> fn, ret |-> r.ret, tr |-> r.tr]
  /\ pc' = nextpc
  /\ locals' = loc
  /\ log' = log \o msgs
  /\ hist' = Note(hist, fn, r.tr)
  /\ oracle' = o
  /\ UNCHANGED <<inputs, script, caller, idx, results, runs>>

\* internal_spaceship_creator.main
CreatorCreate ==
  /\ script = "internal_spaceship_creator" /\ pc = "create_spaceship_blueprint"
  /\ \E o \in Oracles(BlueprintSites) :
       LET r == create_spaceship_blueprint(host, o) IN
       CASE r.ret = "raise" -> Called(pc, o, r, "raised", locals, << >>)
         [] r.ret = "None" -> Called(pc, o, r, "return", locals, << <<"aborting", script>> >>)
         [] OTHER -> Called(pc, o, r, "add_components_to_blueprint",
                            [locals EXCEPT !.blueprint = r.ret], << >>)

CreatorComponents ==
  /\ script = "internal_spaceship_creator" /\ pc = "add_components_to_blueprint"
  /\ \E o \in Oracles(BlueprintSites) :
       LET r == add_components_to_blueprint(host, locals.blueprint, o) IN
       IF r.ret = "raise" THEN Called(pc, o, r, "raised", locals, << >>)
       ELSE Called(pc, o, r, "add_blueprint_variables", locals, << >>)

CreatorVariables ==
  /\ script = "internal_spaceship_creator" /\ pc = "add_blueprint_variables"
  /\ \E o \in Oracles(BlueprintSites) :
       Called(pc, o, add_blueprint_variables(host, locals.blueprint, o),
              "spawn_test_instance", locals, << >>)

CreatorSpawn ==
  /\ script = "internal_spaceship_creator" /\ pc = "spawn_test_instance"
  /\ \E o \in Oracles(BlueprintSites) :
       Called(pc, o, spawn_test_instance(host, o), "return", locals,
              << <<"completed", script>> >>)

\* internal_weapon_system.main
WeaponCreateLaser ==
  /\ script = "internal_weapon_system" /\ pc = "create_laser_projectile_blueprint"
  /\ \E o \in Oracles(BlueprintSites) :
       LET r == create_laser_projectile_blueprint(host, o) IN
       CASE r.ret = "raise" -> Called(pc, o, r, "raised", locals, << >>)
         [] r.ret = "None" -> Called(pc, o, r, "create_missile_projectile_blueprint", locals, << >>)
         [] OTHER -> Called(pc, o, r, "setup_laser_components",
                            [locals EXCEPT !.laser_bp = r.ret], << >>)

WeaponSetupLaser ==
  /\ script = "internal_weapon_system" /\ pc = "setup_laser_components"
  /\ \E o \in Oracles(BlueprintSites) :
       Called(pc, o, setup_laser_components(host, locals.laser_bp, o),
              "create_missile_projectile_blueprint", locals, << >>)

WeaponCreateMissile ==
  /\ script = "internal_weapon_system" /\ pc = "create_missile_projectile_blueprint"
  /\ \E o \in Oracles(BlueprintSites) :
       LET r == create_missile_projectile_blueprint(host, o) IN
       CASE r.ret = "raise" -> Called(pc, o, r, "raised", locals, << >>)
         [] r.ret = "None" -> Called(pc, o, r, "add_weapon_components_to_spaceship", locals, << >>)
         [] OTHER -> Called(pc, o, r, "setup_missile_components",
                            [locals EXCEPT !.missile_bp = r.ret], << >>)

WeaponSetupMissile ==
  /\ script = "internal_weapon_system" /\ pc = "setup_missile_components"
  /\ \E o \in Oracles(BlueprintSites) :
       Called(pc, o, setup_missile_components(host, locals.missile_bp, o),
              "add_weapon_components_to_spaceship", locals, << >>)

WeaponComponents ==
  /\ script = "internal_weapon_system" /\ pc = "add_weapon_components_to_spaceship"
  /\ \E o \in Oracles(BlueprintSites) :
       Called(pc, o, add_weapon_components_to_spaceship(host, o), "return", locals,
              << <<"completed", script>> >>)

\* internal_input_setup.main
InputSetup ==
  /\ script = "internal_input_setup" /\ pc = "setup_input_mappings"
  /\ \E o \in Oracles(InputSites) :
       LET r == setup_input_mappings(inputs, o) IN
       /\ Starts(o, r.tr)
       /\ inputs' = r.h
       /\ last' = [fn |-> pc, ret |-> r.ret, tr |-> r.tr]
       /\ pc' = "return"
       /\ log' = Append(log, <<IF r.ret = "True" THEN "completed" ELSE "aborting", script>>)
       /\ hist' = [Note(hist, pc, r.tr) EXCEPT
                     !.before = inputs, !.prevRet = hist.lastRet, !.lastRet = r.ret]
       /\ oracle' = o
       /\ UNCHANGED <<host, script, caller, idx, locals, results, runs>>

----------------------------------------------------------------------------
\* internal_complete_setup.py

\* whether the module's source compiles: internal_weapon_system.py does not
\* ("unreal.PinCategory.class", line 453, is a syntax error), so exec_module
\* raises before any of its code runs
Compiles(name) == name # "internal_weapon_system"

NoCall == [fn |-> "", ret |-> "", tr |-> << >>]

NoInputs == [action_mapping |-> << >>, axis_mapping |-> << >>]

\* the history of a run: what kind of run it is, whether a host call failed
\* in it, the followed operations that failed in it and whether one of them
\* was made again; of the input settings: their value before the last call
\* of setup_input_mappings, and the return values of the last two calls
StartRun(hs, kind) ==
  [hs EXCEPT !.kind = kind, !.faults = FALSE, !.failed = {}, !.retried = FALSE]

EndRun(hs) == [hs EXCEPT !.failed = {}, !.before = NoInputs, !.prevRet = ""]

\* the console runs internal_complete_setup.py: main() up to the loop
SetupStart ==
  /\ caller = "" /\ runs = 0
  /\ caller' = "setup" /\ pc' = "loop" /\ idx' = 1
  /\ results' = << >>
  /\ log' = << <<"Starting complete setup", "">> >>
  /\ hist' = StartRun(hist, "setup")
  /\ runs' = runs + 1
  /\ UNCHANGED <<host, inputs, script, locals, last, oracle>>

\* a loop that a failed script ends
Returned_halting(success, msgs) ==
  /\ results' = Append(results, success)
  /\ log' = log \o msgs
            \o (IF success THEN << >> ELSE << <<"Failed to run script", scripts[idx]>> >>)
  /\ IF success THEN caller' = "setup" /\ pc' = "loop" ELSE caller' = "" /\ pc' = "idle"
  /\ idx' = idx + 1
  /\ script' = "" /\ locals' = NoLocals

\* import_and_run_module returned success for the current script
Returned(success, msgs) ==
  /\ results' = Append(results, success)
  /\ log' = log \o msgs
            \o (IF success THEN << >> ELSE << <<"Failed to run script", scripts[idx]>> >>)
  /\ caller' = "setup" /\ pc' = "loop" /\ idx' = idx + 1
  /\ script' = "" /\ locals' = NoLocals

\* one iteration of the loop, up to spec.loader.exec_module(module): the
\* module cannot be found or loaded, or its source does not compile, or its
\* code starts to run, which calls main() (the script's last statement)
ImportModule ==
  /\ caller = "setup" /\ pc = "loop" /\ idx <= Len(scripts)
  /\ LET name == scripts[idx]
         msgs == << <<"Running script", name>>, <<"Importing module", name>> >>
     IN  \/ /\ Returned(FALSE, msgs \o << <<"Could not load", name>> >>)
            /\ hist' = [hist EXCEPT !.faults = TRUE, !.clean = FALSE]
            /\ UNCHANGED <<host, inputs, last, oracle, runs>>
         \/ /\ ~Compiles(name)
            /\ Returned(FALSE, msgs \o << <<"Error loading or running module", name>> >>)
            /\ UNCHANGED <<host, inputs, last, hist, oracle, runs>>
         \/ /\ Compiles(name)
            /\ script' = name /\ caller' = "exec_module" /\ pc' = Entry(name)
            /\ locals' = NoLocals
            /\ log' = log \o msgs \o << <<"Starting", name>> >>
            /\ UNCHANGED <<host, inputs, idx, last, results, hist, oracle, runs>>

\* the main() called while the module was executed has ended: an exception
\* goes to the except clause; otherwise module.main() is called
ExecModuleEnd ==
  /\ caller = "exec_module" /\ pc \in {"return", "raised"}
  /\ IF pc = "raised"
     THEN Returned(FALSE, << <<"Error loading or running module", script>> >>)
     ELSE /\ caller' = "module.main" /\ pc' = Entry(script)
          /\ locals' = NoLocals
          /\ log' = log \o << <<"Running main()", script>>, <<"Starting", script>> >>
          /\ UNCHANGED <<script, idx, results>>
  /\ UNCHANGED <<host, inputs, last, hist, oracle, runs>>

\* module.main() has ended
ModuleMainEnd ==
  /\ caller = "module.main" /\ pc \in {"return", "raised"}
  /\ IF pc = "raised"
     THEN Returned(FALSE, << <<"Error loading or running module", script>> >>)
     ELSE Returned(TRUE, << <<"Completed", script>> >>)
  /\ UNCHANGED <<host, inputs, last, hist, oracle, runs>>

\* after the loop
SetupFinish ==
  /\ caller = "setup" /\ pc = "loop" /\ idx > Len(scripts)
  /\ log' = Append(log, <<"setup process completed", "">>)
  /\ caller' = "" /\ pc' = "idle"
  /\ last' = NoCall
  /\ hist' = EndRun(hist)
  /\ UNCHANGED <<host, inputs, script, idx, locals, results, oracle, runs>>

----------------------------------------------------------------------------
\* A script run on its own from the console (execfile, as each script's
\* docstring says): its last statement calls main()

DirectRun(name) ==
  /\ caller = "" /\ runs < MaxRuns
  /\ script' = name /\ caller' = "direct" /\ pc' = Entry(name)
  /\ locals' = NoLocals
  /\ log' = << <<"Starting", name>> >>
  /\ hist' = StartRun(hist, "direct")
  /\ oracle' \in {oracle} \cup (IF oracle = NoFault THEN {} ELSE {Repaired})
  /\ runs' = runs + 1
  /\ UNCHANGED <<host, inputs, idx, last, results>>

DirectEnd ==
  /\ caller = "direct" /\ pc \in {"return", "raised"}
  /\ log' = Append(log, <<pc, script>>)
  /\ caller' = "" /\ script' = "" /\ pc' = "idle"
  /\ locals' = NoLocals
  /\ last' = NoCall
  /\ hist' = EndRun(hist)
  /\ UNCHANGED <<host, inputs, idx, results, oracle, runs>>

----------------------------------------------------------------------------
\* Initial states

FreshProject ==
  [dirs |-> {},
   assets |-> [a \in AssetPaths |-> 0],
   comps |-> [a \in AssetPaths |-> [c \in ComponentNames |-> 0]],
   vars |-> [a \in AssetPaths |-> [v \in VariableNames |-> 0]],
   actors |-> [labelled |-> 0, unlabelled |-> 0]]

NoHistory ==
  [kind |-> "", faults |-> FALSE, clean |-> TRUE, failed |-> {}, retried |-> FALSE,
   before |-> NoInputs, prevRet |-> "", lastRet |-> ""]

\* input settings a project may hold before the scripts run: mappings of
\* configured names (with the configured key or another) and of other names
PriorActions == {<<"Boost", "E">>, <<"Boost", "X">>, <<"Jump", "SpaceBar">>}

PriorAxes == {<<"MoveForward", "Up", 1>>, <<"Strafe", "D", 1>>}

SeqsUpTo(S, n) == UNION {[1..k -> S] : k \in 0..n}

Idle ==
  /\ pc = "idle" /\ script = "" /\ caller = "" /\ idx = 1
  /\ locals = NoLocals /\ last = NoCall /\ results = << >> /\ log = << >>
  /\ hist = NoHistory /\ oracle = NoFault /\ runs = 0

Init ==
  /\ host = FreshProject
  /\ inputs \in {NoInputs,
                 [action_mapping |-> << <<"Boost", "X">>, <<"Jump", "SpaceBar">> >>,
                  axis_mapping |-> << <<"MoveForward", "Up", 1>> >>]}
  /\ Idle

InitInput ==
  /\ host = FreshProject
  /\ inputs \in [action_mapping : SeqsUpTo(PriorActions, MaxPrior),
                 axis_mapping : SeqsUpTo(PriorAxes, MaxPrior)]
  /\ Idle

----------------------------------------------------------------------------
\* Specifications

CreatorMain == CreatorCreate \/ CreatorComponents \/ CreatorVariables \/ CreatorSpawn

WeaponMain ==
  \/ WeaponCreateLaser \/ WeaponSetupLaser \/ WeaponCreateMissile
  \/ WeaponSetupMissile \/ WeaponComponents

\* the complete setup
Next ==
  \/ SetupStart \/ ImportModule \/ ExecModuleEnd \/ ModuleMainEnd \/ SetupFinish
  \/ CreatorMain \/ InputSetup

Spec == Init /\ [][Next]_vars

\* the blueprint scripts run on their own; the functions of
\* internal_weapon_system.py are run as its source text defines them, although
\* the file does not compile as it stands (Compiles)
NextScripts ==
  \/ DirectRun("internal_spaceship_creator") \/ DirectRun("internal_weapon_system")
  \/ DirectEnd \/ CreatorMain \/ WeaponMain

SpecScripts == Init /\ [][NextScripts]_vars

\* the input script run on its own
NextInput == DirectRun("internal_input_setup") \/ DirectEnd \/ InputSetup

SpecInput == InitInput /\ [][NextInput]_vars

----------------------------------------------------------------------------
\* Properties of the complete setup (Spec)

Logged(msg) == \E i \in DOMAIN log : log[i] = msg

At(msg) == CHOOSE i \in DOMAIN log : log[i] = msg

\* the run of the complete setup has returned to the console
SetupDone == hist.kind = "setup" /\ caller = ""

\* import_and_run_module has returned for the script
Finished(name) == Logged(<<"Completed", name>>) \/ Logged(<<"Failed to run script", name>>)

FinishedAt(name) ==
  IF Logged(<<"Completed", name>>) THEN At(<<"Completed", name>>)
  ELSE At(<<"Failed to run script", name>>)

\* the calls of a script's main() that a step of the run makes
MainCalls(name) ==
  CASE name = "internal_spaceship_creator" ->
         {"create_spaceship_blueprint", "add_components_to_blueprint",
          "add_blueprint_variables", "spawn_test_instance"}
    [] name = "internal_input_setup" -> {"setup_input_mappings"}
    [] name = "internal_weapon_system" ->
         {"create_laser_projectile_blueprint", "setup_laser_components",
          "create_missile_projectile_blueprint", "setup_missile_components",
          "add_weapon_components_to_spaceship"}

\* the order the complete setup is to keep
SetupOrder ==
  << "internal_spaceship_creator", "internal_input_setup", "internal_weapon_system" >>

RunningScripts == SelectSeq(log, LAMBDA m : m[1] = "Running script")

\* C1: the complete setup starts the scripts in the order spaceship creator,
\* input setup, weapon system, none twice and none out of that order; a
\* script is started only after the one before it has finished, and a
\* main() runs only between the start and the finish of its own script.
C1_FixedOrder ==
  /\ Len(RunningScripts) <= Len(SetupOrder)
  /\ \A k \in DOMAIN RunningScripts : RunningScripts[k] = <<"Running script", SetupOrder[k]>>
  /\ \A k \in DOMAIN RunningScripts :
       k > 1 => /\ Finished(SetupOrder[k - 1])
                /\ FinishedAt(SetupOrder[k - 1]) < At(<<"Running script", SetupOrder[k]>>)
  /\ \A i \in DOMAIN log :
       log[i][1] = "Starting" =>
         /\ Logged(<<"Running script", log[i][2]>>)
         /\ At(<<"Running script", log[i][2]>>) < i
         /\ Finished(log[i][2]) => i < FinishedAt(log[i][2])
  /\ script # "" => /\ Logged(<<"Running script", script>>)
                    /\ ~Finished(script)

\* all three scripts were started and the run is over
C1_Witness ==
  /\ SetupDone
  /\ Len(RunningScripts) = Len(SetupOrder)
  /\ Logged(<<"Completed", "internal_spaceship_creator">>)

\* C2: whatever scripts fail, the loop goes on: import_and_run_module
\* returns for each script in turn, the run is either in the loop or in a
\* script's main() that can take its next step or has ended, and when it is
\* over every script of the list was attempted and the final message
\* is the last one logged.
C2_FailuresDoNotHalt ==
  /\ hist.kind = "setup" /\ caller = "setup" => Len(results) = idx - 1
  /\ hist.kind = "setup" /\ caller # "" =>
       \/ caller = "setup" /\ pc = "loop" /\ idx <= Len(SetupOrder) + 1
       \/ /\ caller \in {"exec_module", "module.main"} /\ idx <= Len(SetupOrder)
          /\ script = SetupOrder[idx]
          /\ pc \in {"return", "raised"} \cup MainCalls(script)
  /\ SetupDone =>
       /\ Len(results) = Len(SetupOrder)
       /\ \A k \in DOMAIN SetupOrder : Logged(<<"Running script", SetupOrder[k]>>)
       /\ log[Len(log)] = <<"setup process completed", "">>

\* every script failed (the first by an exception out of its main()), and
\* the run still reached its end
C2_Witness ==
  /\ SetupDone
  /\ results = <<FALSE, FALSE, FALSE>>
  /\ Logged(<<"Error loading or running module", "internal_spaceship_creator">>)
  /\ Logged(<<"setup process completed", "">>)

\* C3: no exception of a host call leaves a script's main(): it is caught
\* and logged inside the script, and main() returns.
C3_NoExceptionLeavesMain == pc # "raised"

\* C4: within one run, a followed operation (asset creation, component
\* attachment, variable addition, spawn, save) that has failed is not made
\* a second time.
C4_NeverRetried == ~hist.retried

\* C9: when no host call fails in a run of the complete setup, after the
\* loop import_and_run_module has returned True for each of the three
\* scripts and no "Failed to run script" was logged.
C9_AllScriptsComplete ==
  (caller = "setup" /\ idx > Len(scripts) /\ ~hist.faults) =>
     /\ results = <<TRUE, TRUE, TRUE>>
     /\ \A k \in DOMAIN SetupOrder : ~Logged(<<"Failed to run script", SetupOrder[k]>>)

----------------------------------------------------------------------------
\* Properties of the blueprint functions (SpecScripts)

Has(tr, s) == \E i \in DOMAIN tr : tr[i][1] = s

Pos(tr, s) == CHOOSE i \in DOMAIN tr : tr[i][1] = s

\* the asset each create function is for
Creates ==
  [create_spaceship_blueprint |-> SPACESHIP_FULL_PATH,
   create_laser_projectile_blueprint |-> LASER_FULL_PATH,
   create_missile_projectile_blueprint |-> MISSILE_FULL_PATH]

\* C5: an asset that exists is never created again or replaced, by any
\* step; a create function calls create_asset only after does_asset_exist
\* and only for an asset that did not exist before the call, and when the
\* asset existed and the call returns a blueprint, it is the existing asset,
\* loaded.
C5_CheckThenCreate ==
  [][\A a \in AssetPaths :
       /\ Exists(host, a) => host'.assets[a] = host.assets[a]
       /\ (pc \in DOMAIN Creates /\ pc' # pc /\ Creates[pc] = a) =>
            /\ last'.fn = pc
            /\ Has(last'.tr, <<"create_asset", a>>) =>
                 /\ ~Exists(host, a)
                 /\ Has(last'.tr, <<"does_asset_exist", a>>)
                 /\ Pos(last'.tr, <<"does_asset_exist", a>>) < Pos(last'.tr, <<"create_asset", a>>)
            /\ (Exists(host, a) /\ last'.ret \notin {"raise", "None"}) =>
                 /\ last'.ret = a
                 /\ <<<<"load_asset", a>>, "ok">> \in Range(last'.tr)
    ]_vars

\* a later run found the missile blueprint of an earlier run and loaded it
C5_Witness ==
  /\ last.fn = "create_missile_projectile_blueprint"
  /\ last.ret = MISSILE_FULL_PATH
  /\ <<<<"load_asset", MISSILE_FULL_PATH>>, "ok">> \in Range(last.tr)
  /\ ~Has(last.tr, <<"create_asset", MISSILE_FULL_PATH>>)
  /\ host.assets[MISSILE_FULL_PATH] = 1

\* the names of the fixed component list of the spaceship
SpaceshipNames ==
  {"DefaultSceneRoot"} \cup {spaceship_components[i].name : i \in DOMAIN spaceship_components}

\* C6: after one or more runs of the spaceship creator, no host call having
\* failed, the spaceship blueprint holds exactly one component of each name
\* of the fixed list.
C6_OneComponentPerName ==
  (caller = "" /\ hist.clean /\ Logged(<<"return", "internal_spaceship_creator">>)) =>
     \A n \in SpaceshipNames : host.comps[SPACESHIP_FULL_PATH][n] = 1

\* the steps of each populating function: its component attachments, its
\* variable additions, and the asset it saves
Attaches(fn) ==
  CASE fn = "add_components_to_blueprint" -> spaceship_components
    [] fn = "setup_laser_components" -> laser_components
    [] fn = "setup_missile_components" -> missile_components
    [] fn = "add_weapon_components_to_spaceship" -> weapon_mounts
    [] OTHER -> << >>

Additions(fn) ==
  CASE fn = "add_blueprint_variables" ->
         {<<"does_member_variable_exist", variables[i]>> : i \in DOMAIN variables}
    [] fn = "setup_laser_components" ->
         {<<"add_member_variable", laser_variables[i]>> : i \in DOMAIN laser_variables}
    [] fn = "setup_missile_components" ->
         {<<"add_member_variable", missile_variables[i]>> : i \in DOMAIN missile_variables}
    [] fn = "add_weapon_components_to_spaceship" ->
         {<<"add_member_variable", weapon_variables[i]>> : i \in DOMAIN weapon_variables}
    [] OTHER -> {}

Steps(fn) ==
  {<<"add_new_component_to_blueprint", Attaches(fn)[i].name>> : i \in DOMAIN Attaches(fn)}
    \cup Additions(fn)

Saved(fn) ==
  CASE fn = "setup_laser_components" -> <<"save_asset", LASER_FULL_PATH>>
    [] fn = "setup_missile_components" -> <<"save_asset", MISSILE_FULL_PATH>>
    [] OTHER -> <<"save_asset", SPACESHIP_FULL_PATH>>

Compiled(fn) == <<"compile_blueprint", Saved(fn)[2]>>

PopulateFns ==
  {"add_components_to_blueprint", "add_blueprint_variables", "setup_laser_components",
   "setup_missile_components", "add_weapon_components_to_spaceship"}

\* the call ended in its outer except clause, on an exception of a step
\* before the compilation
RaisedBeforeCompile(c) ==
  /\ c.ret = "False" /\ c.tr # << >>
  /\ c.tr[Len(c.tr)][2] = "raise"
  /\ c.tr[Len(c.tr)][1] \notin {Compiled(c.fn), Saved(c.fn)}

\* C7: in a call of a populating function the asset is saved only after
\* the blueprint was compiled in that call and after every attach/add step
\* of the call was attempted; the call returns True only if the save was
\* invoked and did not raise; when an earlier step raises into the outer
\* catch, the blueprint is neither compiled nor saved in that call.
C7_SaveAfterAllSteps ==
  last.fn \in PopulateFns =>
    /\ Has(last.tr, Saved(last.fn)) =>
         /\ Has(last.tr, Compiled(last.fn))
         /\ Pos(last.tr, Compiled(last.fn)) < Pos(last.tr, Saved(last.fn))
         /\ last.tr[Pos(last.tr, Compiled(last.fn))][2] # "raise"
         /\ \A s \in Steps(last.fn) :
              Has(last.tr, s) /\ Pos(last.tr, s) < Pos(last.tr, Saved(last.fn))
    /\ last.ret = "True" =>
         /\ Has(last.tr, Saved(last.fn))
         /\ last.tr[Pos(last.tr, Saved(last.fn))][2] # "raise"
    /\ RaisedBeforeCompile(last) =>
         /\ ~Has(last.tr, Compiled(last.fn))
         /\ ~Has(last.tr, Saved(last.fn))

----------------------------------------------------------------------------
\* Properties of the input setup (SpecInput)

Count(seq, m) == Len(SelectSeq(seq, LAMBDA x : x = m))

\* the names a table configures
ConfiguredNames(table) == {table[i][1] : i \in DOMAIN table}

\* among the mappings of the names the table configures, seq holds the
\* entries of the table, once each, and no other
ExactlyConfigured(seq, table) ==
  /\ \A i \in DOMAIN table : Count(seq, table[i]) = 1
  /\ \A j \in DOMAIN seq :
       seq[j][1] \in ConfiguredNames(table) => seq[j] \in Range(table)

Succeeded == last.fn = "setup_input_mappings" /\ last.ret = "True"

\* C8: when setup_input_mappings has returned True, whatever the input
\* settings were before, the action mappings of the four configured names
\* are exactly the four configured pairs and the axis mappings of the six
\* configured names exactly the nine configured triples, each once; no
\* older mapping of one of these names is left.
C8_ConfiguredMappings ==
  Succeeded =>
    /\ ExactlyConfigured(inputs.action_mapping, action_mappings)
    /\ ExactlyConfigured(inputs.axis_mapping, axis_mappings)

\* the settings held an older key for Boost, the configured pair twice and
\* an axis mapping of MoveForward with another key
C8_Witness ==
  /\ Succeeded
  /\ hist.before.action_mapping \in
       {<< <<"Boost", "X">>, <<"Boost", "E">> >>, << <<"Boost", "E">>, <<"Boost", "E">> >>}
  /\ <<"MoveForward", "Up", 1>> \in Range(hist.before.axis_mapping)
  /\ <<"Strafe", "D", 1>> \in Range(inputs.axis_mapping)

\* the two settings hold the same mappings, each as many times
SameMappings(a, b) ==
  \A f \in {"action_mapping", "axis_mapping"} :
    \A m \in Range(a[f]) \cup Range(b[f]) : Count(a[f], m) = Count(b[f], m)

\* C10: when setup_input_mappings returns True and the call before it had
\* returned True too, the second call has left the action and axis mappings
\* as the first had left them.
C10_Idempotent ==
  (Succeeded /\ hist.prevRet = "True") => SameMappings(inputs, hist.before)

\* a second successful call on settings that hold a mapping of another name
C10_Witness ==
  /\ Succeeded /\ hist.prevRet = "True"
  /\ <<"Jump", "SpaceBar">> \in Range(inputs.action_mapping)
  /\ Len(inputs.action_mapping) = Len(action_mappings) + 1

\* the mappings of seq whose name the table does not configure
Others(seq, table) == SelectSeq(seq, LAMBDA x : x[1] \notin ConfiguredNames(table))

\* C11: after a call of setup_input_mappings, whatever it returned, the
\* action mappings of names other than the four configured and the axis
\* mappings of names other than the six configured are those held before
\* the call, each as it was and in the same order: none removed, none
\* changed.
C11_OthersUntouched ==
  last.fn = "setup_input_mappings" =>
    /\ Others(inputs.action_mapping, action_mappings)
         = Others(hist.before.action_mapping, action_mappings)
    /\ Others(inputs.axis_mapping, axis_mappings)
         = Others(hist.before.axis_mapping, axis_mappings)

\* the call removed an older Boost mapping and left the Jump and Strafe
\* mappings it found
C11_Witness ==
  /\ Succeeded
  /\ hist.before.action_mapping = << <<"Boost", "X">>, <<"Jump", "SpaceBar">> >>
  /\ <<"Strafe", "D", 1>> \in Range(hist.before.axis_mapping)
  /\ <<"Boost", "X">> \notin Range(inputs.action_mapping)
  /\ <<"Jump", "SpaceBar">> \in Range(inputs.action_mapping)
  /\ <<"Strafe", "D", 1>> \in Range(inputs.axis_mapping)

SaveConfig == <<"save_config_file", "InputSettings">>

\* the additions setup_input_mappings makes
AddSteps ==
  {<<"add_action_mapping", action_mappings[i][2]>> : i \in DOMAIN action_mappings}
    \cup {<<"add_axis_mapping", axis_mappings[i][2]>> : i \in DOMAIN axis_mappings}

InputSteps ==
  {"remove_action_mapping", "remove_axis_mapping", "add_action_mapping", "add_axis_mapping"}

\* the removals the clearing loops make for the name n: one for each pair of
\* a table entry and an existing mapping of that name
Removals(table, existing, n) ==
  Cardinality({i \in DOMAIN table : table[i][1] = n})
    * Cardinality({j \in DOMAIN existing : existing[j][1] = n})

Made(tr, s) == Cardinality({i \in DOMAIN tr : tr[i][1] = s})

\* C12: in a call of setup_input_mappings the configuration is saved only
\* after every existing mapping of a configured name was removed and the
\* four action and nine axis mappings were added; when a step before the
\* save raises, the save is not invoked and the call returns False; and
\* main() logs its completion if and only if the call returned True, and
\* logs that it aborts otherwise.
C12_SaveAfterAllMappings ==
  last.fn = "setup_input_mappings" =>
    /\ Has(last.tr, SaveConfig) =>
         /\ \A s \in AddSteps :
              /\ Has(last.tr, s)
              /\ Pos(last.tr, s) < Pos(last.tr, SaveConfig)
              /\ last.tr[Pos(last.tr, s)][2] = "ok"
         /\ \A n \in ConfiguredNames(action_mappings) :
              Made(last.tr, <<"remove_action_mapping", n>>)
                = Removals(action_mappings, hist.before.action_mapping, n)
         /\ \A n \in ConfiguredNames(axis_mappings) :
              Made(last.tr, <<"remove_axis_mapping", n>>)
                = Removals(axis_mappings, hist.before.axis_mapping, n)
         /\ \A i \in DOMAIN last.tr :
              last.tr[i][1][1] \in InputSteps => i < Pos(last.tr, SaveConfig)
    /\ (last.tr # << >> /\ last.tr[Len(last.tr)][2] = "raise"
          /\ last.tr[Len(last.tr)][1] # SaveConfig) =>
         /\ ~Has(last.tr, SaveConfig)
         /\ last.ret = "False"
    /\ Logged(<<"completed", "internal_input_setup">>) <=> last.ret = "True"
    /\ last.ret # "True" => Logged(<<"aborting", "internal_input_setup">>)

\* a call that removed older mappings of Boost and MoveForward, saved, and
\* whose completion main() logged
C12_Witness ==
  /\ Succeeded
  /\ Has(last.tr, SaveConfig)
  /\ Made(last.tr, <<"remove_action_mapping", "Boost">>) = 2
  /\ Made(last.tr, <<"remove_axis_mapping", "MoveForward">>) = 2
  /\ Logged(<<"completed", "internal_input_setup">>)

----------------------------------------------------------------------------
\* Properties of internal_spaceship_creator.main (SpecScripts)

InCreator == script = "internal_spaceship_creator"

Obtained == last.fn = "create_spaceship_blueprint" /\ last.ret = SPACESHIP_FULL_PATH

\* C13: in the spaceship creator's main(), when create_spaceship_blueprint
\* returned None main() aborts and returns without a further call; when the
\* blueprint was obtained, add_components_to_blueprint,
\* add_blueprint_variables and spawn_test_instance are called in that
\* order, each whatever the one before returned, and main() ends only
\* after spawn_test_instance.
C13_CreatorMainSteps ==
  InCreator =>
    /\ (last.fn = "create_spaceship_blueprint" /\ last.ret = "None") =>
         pc = "return" /\ Logged(<<"aborting", script>>)
    /\ Obtained => pc = "add_components_to_blueprint"
    /\ pc = "add_components_to_blueprint" => Obtained
    /\ last.fn = "add_components_to_blueprint" => pc = "add_blueprint_variables"
    /\ pc = "add_blueprint_variables" => last.fn = "add_components_to_blueprint"
    /\ last.fn = "add_blueprint_variables" => pc = "spawn_test_instance"
    /\ pc = "spawn_test_instance" => last.fn = "add_blueprint_variables"
    /\ last.fn = "spawn_test_instance" =>
         pc = "return" /\ Logged(<<"completed", script>>)
    /\ pc \in {"return", "raised"} =>
         last.fn \in {"create_spaceship_blueprint", "spawn_test_instance"}

====
